---- MODULE Spec2Model ----
(***************************************************************************)
(* AIUB CGPA calculator: the grade lookup, the semester GPA, the           *)
(* cumulative CGPA and the academic status of frame/script.js and of       *)
(* source/GradeCalculator.java, and the form handlers of frame/script.js.  *)
(*                                                                         *)
(* Numbers are IEEE 754 binary64 values, JavaScript's Number and Java's    *)
(* double, with their rounding; Java's int has 32 bits.  Form values are   *)
(* sequences of one-character strings, parsed as parseFloat and parseInt   *)
(* parse them.                                                             *)
(***************************************************************************)
EXTENDS Integers, Sequences, FiniteSets, TLC

----------------------------------------------------------------------------
(* Natural numbers of any size: the limbs, least significant first, in base
   2^15, without a leading zero limb; << >> is 0. *)

Base == 32768

\* P2[k + 1] = 2^k
P2 == <<1, 2, 4, 8, 16, 32, 64, 128, 256, 512, 1024, 2048, 4096, 8192, 16384, 32768>>

Max(a, b) == IF a >= b THEN a ELSE b

Min(a, b) == IF a <= b THEN a ELSE b

\* The one element of the set S.  A value that is used more than once is
\* computed once: Bind({ e : x \in {v} }) is e with v, computed once, for x.
Bind(S) == CHOOSE v \in S : TRUE

\* The highest position from lo to hi where a holds a limb other than 0, or 0.
RECURSIVE BTop(_, _, _)
BTop(a, lo, hi) ==
    IF lo > hi THEN 0
    ELSE IF lo = hi THEN (IF a[lo] # 0 THEN lo ELSE 0)
    ELSE LET mid == (lo + hi) \div 2
             t   == BTop(a, mid + 1, hi)
         IN  IF t # 0 THEN t ELSE BTop(a, lo, mid)

\* a without its leading zero limbs.
BNorm(a) == SubSeq(a, 1, BTop(a, 1, Len(a)))

\* 0 <= n < 2^31
BFromInt(n) == BNorm(<<n % Base, (n \div Base) % Base, n \div (Base * Base)>>)

BLimb(a, i) == IF i <= Len(a) THEN a[i] ELSE 0

\* The limbs lo to hi of a + b + carry, and the carry out of them.
RECURSIVE BAddRange(_, _, _, _, _)
BAddRange(a, b, lo, hi, carry) ==
    IF lo > hi THEN [d |-> << >>, c |-> carry]
    ELSE IF lo = hi
    THEN LET s == BLimb(a, lo) + BLimb(b, lo) + carry
         IN  [d |-> <<s % Base>>, c |-> s \div Base]
    ELSE LET mid  == (lo + hi) \div 2
             low  == BAddRange(a, b, lo, mid, carry)
             high == BAddRange(a, b, mid + 1, hi, low.c)
         IN  [d |-> low.d \o high.d, c |-> high.c]

\* The limbs r.d, and the carry r.c above them when it is not 0.
BWithCarry(r) == IF r.c = 0 THEN r.d ELSE r.d \o <<r.c>>

BAdd(a, b) == BWithCarry(BAddRange(a, b, 1, Max(Len(a), Len(b)), 0))

\* The limbs lo to hi of a - b - borrow, and the borrow out of them.
RECURSIVE BSubRange(_, _, _, _, _)
BSubRange(a, b, lo, hi, borrow) ==
    IF lo > hi THEN [d |-> << >>, c |-> borrow]
    ELSE IF lo = hi
    THEN LET s == a[lo] - BLimb(b, lo) - borrow
         IN  [d |-> <<IF s < 0 THEN s + Base ELSE s>>, c |-> IF s < 0 THEN 1 ELSE 0]
    ELSE LET mid  == (lo + hi) \div 2
             low  == BSubRange(a, b, lo, mid, borrow)
             high == BSubRange(a, b, mid + 1, hi, low.c)
         IN  [d |-> low.d \o high.d, c |-> high.c]

\* a - b, for a >= b
BSub(a, b) == BNorm(BSubRange(a, b, 1, Len(a), 0).d)

\* -1, 0 or 1 as a < b, a = b or a > b on the limbs lo to hi.
RECURSIVE BCmpRange(_, _, _, _)
BCmpRange(a, b, lo, hi) ==
    IF lo > hi THEN 0
    ELSE IF lo = hi
    THEN (IF a[lo] < b[lo] THEN -1 ELSE IF a[lo] > b[lo] THEN 1 ELSE 0)
    ELSE LET mid == (lo + hi) \div 2
             c   == BCmpRange(a, b, mid + 1, hi)
         IN  IF c # 0 THEN c ELSE BCmpRange(a, b, lo, mid)

\* -1, 0 or 1 as a < b, a = b or a > b
BCmp(a, b) ==
    IF Len(a) < Len(b) THEN -1
    ELSE IF Len(a) > Len(b) THEN 1
    ELSE BCmpRange(a, b, 1, Len(a))

\* The limbs lo to hi of a * k + carry, and the carry out of them.
RECURSIVE BMulSmallRange(_, _, _, _, _)
BMulSmallRange(a, k, lo, hi, carry) ==
    IF lo > hi THEN [d |-> << >>, c |-> carry]
    ELSE IF lo = hi
    THEN LET s == a[lo] * k + carry
         IN  [d |-> <<s % Base>>, c |-> s \div Base]
    ELSE LET mid  == (lo + hi) \div 2
             low  == BMulSmallRange(a, k, lo, mid, carry)
             high == BMulSmallRange(a, k, mid + 1, hi, low.c)
         IN  [d |-> low.d \o high.d, c |-> high.c]

\* a * k, for 0 <= k <= Base
BMulSmall(a, k) ==
    IF k = 0 THEN << >> ELSE BWithCarry(BMulSmallRange(a, k, 1, Len(a), 0))

\* a * Base^n
BShlLimbs(a, n) == IF a = << >> \/ n = 0 THEN a ELSE [i \in 1..n |-> 0] \o a

\* a times the limbs lo to hi of b, each at its place.
RECURSIVE BMulRange(_, _, _, _)
BMulRange(a, b, lo, hi) ==
    IF lo > hi THEN << >>
    ELSE IF lo = hi THEN BShlLimbs(BMulSmall(a, b[lo]), lo - 1)
    ELSE LET mid == (lo + hi) \div 2
         IN  BAdd(BMulRange(a, b, lo, mid), BMulRange(a, b, mid + 1, hi))

BMul(a, b) == BMulRange(a, b, 1, Len(b))

\* The long division of a by k, 0 < k < Base, over the limbs hi down to lo,
\* given the remainder of the limbs above: the limbs of the quotient, the
\* highest first, and the remainder after them.
RECURSIVE BDivSmallRange(_, _, _, _, _)
BDivSmallRange(a, k, lo, hi, rem) ==
    IF lo > hi THEN [q |-> << >>, r |-> rem]
    ELSE IF lo = hi
    THEN [q |-> <<(rem * Base + a[lo]) \div k>>, r |-> (rem * Base + a[lo]) % k]
    ELSE LET mid  == (lo + hi) \div 2
             high == BDivSmallRange(a, k, mid + 1, hi, rem)
             low  == BDivSmallRange(a, k, lo, mid, high.r)
         IN  [q |-> high.q \o low.q, r |-> low.r]

Reverse(s) == [i \in 1..Len(s) |-> s[Len(s) + 1 - i]]

\* a \div k and a % k, for 0 < k < Base
BDivSmall(a, k) ==
    Bind({ [q |-> BNorm(Reverse(d.q)), r |-> d.r] : d \in {BDivSmallRange(a, k, 1, Len(a), 0)} })

\* a * 2^r, for 0 <= r < 15
BShlBits(a, r) == IF r = 0 THEN a ELSE BMulSmall(a, P2[r + 1])

\* a \div 2^r, for 0 <= r < 15
BShrBits(a, r) ==
    IF r = 0 THEN a
    ELSE BNorm([i \in 1..Len(a) |->
                   (a[i] \div P2[r + 1]) + (BLimb(a, i + 1) % P2[r + 1]) * P2[16 - r]])

BShl(a, n) == BShlBits(BShlLimbs(a, n \div 15), n % 15)

BShr(a, n) ==
    IF n \div 15 >= Len(a) THEN << >>
    ELSE BShrBits(SubSeq(a, (n \div 15) + 1, Len(a)), n % 15)

\* Bit i of a, bit 0 the lowest.
BBit(a, i) ==
    IF i < 0 \/ i \div 15 >= Len(a) THEN 0
    ELSE (a[(i \div 15) + 1] \div P2[(i % 15) + 1]) % 2

\* Whether the bits of a below bit n are all 0.
BLowZero(a, n) ==
    /\ \A j \in 1..Min(n \div 15, Len(a)) : a[j] = 0
    /\ n \div 15 < Len(a) => a[(n \div 15) + 1] % P2[(n % 15) + 1] = 0

\* The number of bits of v, 0 < v < Base.
LimbBits(v) == CHOOSE k \in 1..15 : P2[k] <= v /\ v < P2[k + 1]

BBitLen(a) == IF a = << >> THEN 0 ELSE 15 * (Len(a) - 1) + LimbBits(a[Len(a)])

\* The number of trailing zero bits of a # 0.
BTrailingZeros(a) ==
    LET j == CHOOSE i \in 1..Len(a) : a[i] # 0 /\ \A h \in 1..(i - 1) : a[h] = 0
        t == CHOOSE k \in 0..14 : a[j] % P2[k + 2] # 0 /\ a[j] % P2[k + 1] = 0
    IN  15 * (j - 1) + t

\* a as an integer, for a < 2^31
BToInt(a) == BLimb(a, 1) + Base * BLimb(a, 2) + Base * Base * BLimb(a, 3)

\* One step of the long division in base 2: s.q holds the quotient bits
\* found, s.a what is left of the dividend, s.bs the divisor at the place of
\* the bit at hand.
BDivStep(s) ==
    Bind({
        [q  |-> BAdd(BMulSmall(s.q, 2), IF fits THEN <<1>> ELSE << >>),
         a  |-> IF fits THEN BSub(s.a, s.bs) ELSE s.a,
         bs |-> BShrBits(s.bs, 1)]
      : fits \in {BCmp(s.a, s.bs) >= 0} })

\* n steps from s, each one computed before the next.
RECURSIVE BDivSteps(_, _)
BDivSteps(s, n) ==
    IF s = s /\ n > 0 THEN BDivSteps(BDivStep(s), n - 1) ELSE s

\* k times eight steps from s.
RECURSIVE BDivChunks(_, _)
BDivChunks(s, k) ==
    IF s = s /\ k > 0 THEN BDivChunks(BDivSteps(s, 8), k - 1) ELSE s

\* The quotient of a by b, for a < b * 2^56, and whether a remainder is left:
\* seven times eight bits of the quotient, the highest first, or the short
\* division by a b of one limb.
BDiv56(a, b) ==
    IF Len(b) = 1
    THEN Bind({ [q |-> d.q, sticky |-> d.r # 0] : d \in {BDivSmall(a, b[1])} })
    ELSE Bind({ [q |-> s.q, sticky |-> s.a # << >>] : s \in {BDivChunks([q |-> << >>, a |-> a, bs |-> BShl(b, 55)], 7)} })

----------------------------------------------------------------------------
(* IEEE 754 binary64 numbers.  A finite number is (-1)^neg * m * 2^e with m
   odd and below 2^53, or m = 0 and e = 0; every number has one record. *)

NaN == [c |-> "nan", neg |-> FALSE, m |-> << >>, e |-> 0]

Infinity(neg) == [c |-> "inf", neg |-> neg, m |-> << >>, e |-> 0]

Zero(neg) == [c |-> "num", neg |-> neg, m |-> << >>, e |-> 0]

isNaN(x) == x.c = "nan"

IsZero(x) == x.c = "num" /\ x.m = << >>

\* The finite number (-1)^neg * m * 2^e, m of at most 53 bits.
Finite(neg, m, e) ==
    IF m = << >> THEN Zero(neg)
    ELSE Bind({
             [c |-> "num", neg |-> neg, m |-> BShr(m, t), e |-> e + t]
      : t \in {BTrailingZeros(m)} })

\* The binary64 number nearest to (-1)^neg * (m + f) * 2^e, ties to the even
\* mantissa, where 0 <= f < 1, and f > 0 exactly when sticky; with sticky, m
\* has more than 54 bits.
Round(neg, m, e, sticky) ==
    Bind({
    Bind({
        IF drop = 0
        THEN (IF len + e > 1024 THEN Infinity(neg) ELSE Finite(neg, m, e))
        ELSE Bind({
             Bind({
                 IF BBitLen(mant) + e + drop > 1024 THEN Infinity(neg)
                 ELSE Finite(neg, mant, e + drop)
               : mant \in {IF /\ BBit(m, drop - 1) = 1
                     /\ (sticky \/ ~BLowZero(m, drop - 1) \/ BBit(kept, 0) = 1)
                  THEN BAdd(kept, <<1>>) ELSE kept} })
          : kept \in {BShr(m, drop)} })
      : drop \in {Max(Max(len - 53, (-1074) - e), 0)} })
      : len \in {BBitLen(m)} })

\* The binary64 number nearest to (-1)^neg * (n / d) * 2^e, for n, d # 0:
\* n or d is shifted for a quotient of 55 or 56 bits.
FromRatio(neg, n, d, e) ==
    Bind({
        IF e - t > 1100 THEN Infinity(neg)
        ELSE IF e - t < -1300 THEN Zero(neg)
        ELSE Bind({
                 Round(neg, qs.q, e - t, qs.sticky)
          : qs \in {BDiv56(IF t >= 0 THEN BShl(n, t) ELSE n,
                         IF t >= 0 THEN d ELSE BShl(d, -t))} })
      : t \in {BBitLen(d) + 55 - BBitLen(n)} })

\* The number literal k, an integer with |k| < 2^31.
Num(k) == Finite(k < 0, BFromInt(IF k < 0 THEN -k ELSE k), 0)

\* The number literal n/d as a decimal (3.75 is Rat(15, 4)), d > 0.
Rat(n, d) ==
    IF n = 0 THEN Zero(FALSE)
    ELSE FromRatio(n < 0, BFromInt(IF n < 0 THEN -n ELSE n), BFromInt(d), 0)

\* -1, 0, 1 as |x| < |y|, |x| = |y|, |x| > |y|, for finite x and y.
CmpMagnitude(x, y) ==
    IF x.m = << >> \/ y.m = << >>
    THEN (IF x.m = y.m THEN 0 ELSE IF x.m = << >> THEN -1 ELSE 1)
    ELSE Bind({
             IF top[1] < top[2] THEN -1
             ELSE IF top[1] > top[2] THEN 1
             ELSE IF x.e >= y.e THEN BCmp(BShl(x.m, x.e - y.e), y.m)
             ELSE BCmp(x.m, BShl(y.m, y.e - x.e))
      : top \in {<<BBitLen(x.m) + x.e, BBitLen(y.m) + y.e>>} })

\* -1, 0, 1 as x < y, x = y, x > y, for x and y not NaN.
Cmp(x, y) ==
    IF IsZero(x) /\ IsZero(y) THEN 0
    ELSE IF x.neg # y.neg THEN (IF x.neg THEN -1 ELSE 1)
    ELSE Bind({ IF x.neg THEN -c ELSE c : c \in {IF x.c = "inf" /\ y.c = "inf" THEN 0
              ELSE IF x.c = "inf" THEN 1
              ELSE IF y.c = "inf" THEN -1
              ELSE CmpMagnitude(x, y)} })

\* Every comparison with NaN is false.
Lt(a, b) == ~isNaN(a) /\ ~isNaN(b) /\ Cmp(a, b) < 0
Le(a, b) == ~isNaN(a) /\ ~isNaN(b) /\ Cmp(a, b) <= 0
Gt(a, b) == Lt(b, a)
Ge(a, b) == Le(b, a)

Negate(x) == IF x.c = "nan" THEN x ELSE [x EXCEPT !.neg = ~x.neg]

\* a + b
Plus(a, b) ==
    IF a.c = "nan" \/ b.c = "nan" THEN NaN
    ELSE IF a.c = "inf"
    THEN (IF b.c = "inf" /\ a.neg # b.neg THEN NaN ELSE a)
    ELSE IF b.c = "inf" THEN b
    ELSE IF a.m = << >> /\ b.m = << >> THEN Zero(a.neg /\ b.neg)
    ELSE IF a.m = << >> THEN b
    ELSE IF b.m = << >> THEN a
    ELSE Bind({
         Bind({
         Bind({
             IF a.neg = b.neg THEN Round(a.neg, BAdd(am, bm), e, FALSE)
             ELSE Bind({
                      IF c = 0 THEN Zero(FALSE)
                      ELSE Round(IF c > 0 THEN a.neg ELSE b.neg,
                                 IF c > 0 THEN BSub(am, bm) ELSE BSub(bm, am),
                                 e, FALSE)
               : c \in {BCmp(am, bm)} })
           : bm \in {BShl(b.m, b.e - e)} })
           : am \in {BShl(a.m, a.e - e)} })
      : e \in {Min(a.e, b.e)} })

\* a * b
Times(a, b) ==
    IF a.c = "nan" \/ b.c = "nan" THEN NaN
    ELSE IF a.c = "inf" \/ b.c = "inf"
    THEN (IF IsZero(a) \/ IsZero(b) THEN NaN ELSE Infinity(a.neg # b.neg))
    ELSE IF a.m = << >> \/ b.m = << >> THEN Zero(a.neg # b.neg)
    ELSE Round(a.neg # b.neg, BMul(a.m, b.m), a.e + b.e, FALSE)

\* a / b
Over(a, b) ==
    IF a.c = "nan" \/ b.c = "nan" THEN NaN
    ELSE IF a.c = "inf" THEN (IF b.c = "inf" THEN NaN ELSE Infinity(a.neg # b.neg))
    ELSE IF b.c = "inf" THEN Zero(a.neg # b.neg)
    ELSE IF b.m = << >> THEN (IF a.m = << >> THEN NaN ELSE Infinity(a.neg # b.neg))
    ELSE IF a.m = << >> THEN Zero(a.neg # b.neg)
    ELSE FromRatio(a.neg # b.neg, a.m, b.m, a.e - b.e)

\* x || 0 for a number x: NaN, 0 and -0 are falsy.
OrZero(x) == IF isNaN(x) \/ IsZero(x) THEN Zero(FALSE) ELSE x

----------------------------------------------------------------------------
(* Java's int *)

MaxInt == 2147483647

MinInt == (-2147483647) - 1

\* a + b in 32 bits, two's complement.
IntAdd(a, b) ==
    IF b > 0 /\ a > MaxInt - b THEN (a - MaxInt - 1) + (b - MaxInt - 1)
    ELSE IF b < 0 /\ a < MinInt - b THEN (a + MaxInt + 1) + (b + MaxInt + 1)
    ELSE a + b

\* The int k as a double.
IntToDouble(k) == IF k = MinInt THEN Finite(TRUE, <<1>>, 31) ELSE Num(k)

\* (int) x for a double x: NaN is 0, the fraction is dropped, and what does
\* not fit is the nearest int.
IntCast(x) ==
    IF x.c = "nan" THEN 0
    ELSE IF x.c = "inf" THEN (IF x.neg THEN MinInt ELSE MaxInt)
    ELSE IF x.m = << >> THEN 0
    ELSE IF BBitLen(x.m) + x.e > 31 THEN (IF x.neg THEN MinInt ELSE MaxInt)
    ELSE Bind({ IF x.neg THEN -mag ELSE mag : mag \in {BToInt(IF x.e >= 0 THEN BShl(x.m, x.e) ELSE BShr(x.m, -x.e))} })

----------------------------------------------------------------------------
(* Form values and their parsing.  A string is the sequence of its
   characters; a character outside printable ASCII is written by its escape
   or by its code point, as in "U+00A0". *)

DigitChars == {"0", "1", "2", "3", "4", "5", "6", "7", "8", "9"}

HexChars == DigitChars \cup {"a", "b", "c", "d", "e", "f", "A", "B", "C", "D", "E", "F"}

DigitValue(c) ==
    CASE c = "0" -> 0 [] c = "1" -> 1 [] c = "2" -> 2 [] c = "3" -> 3
      [] c = "4" -> 4 [] c = "5" -> 5 [] c = "6" -> 6 [] c = "7" -> 7
      [] c = "8" -> 8 [] c = "9" -> 9
      [] c \in {"a", "A"} -> 10 [] c \in {"b", "B"} -> 11
      [] c \in {"c", "C"} -> 12 [] c \in {"d", "D"} -> 13
      [] c \in {"e", "E"} -> 14 [] c \in {"f", "F"} -> 15

\* ECMAScript WhiteSpace and LineTerminator, what trim, parseFloat and
\* parseInt skip: tab, line feed, vertical tab, form feed, carriage return,
\* space, no-break space, the Unicode space separators, the line and
\* paragraph separators and the byte order mark.
WhiteSpaceChars ==
    {"\t", "\n", "U+000B", "\f", "\r", " ", "U+00A0", "U+1680", "U+2000",
     "U+2001", "U+2002", "U+2003", "U+2004", "U+2005", "U+2006", "U+2007",
     "U+2008", "U+2009", "U+200A", "U+2028", "U+2029", "U+202F", "U+205F",
     "U+3000", "U+FEFF"}

\* The first position at or after i that holds no character of D; i itself
\* when it lies beyond s.
ScanChars(s, i, D) ==
    IF i > Len(s) THEN i
    ELSE CHOOSE j \in i..(Len(s) + 1) :
             /\ \A k \in i..(j - 1) : s[k] \in D
             /\ j <= Len(s) => s[j] \notin D

\* The first position at or after i that holds no white space.
SkipSpace(s, i) == ScanChars(s, i, WhiteSpaceChars)

\* The first position at or after i that holds no digit of the set D.
ScanDigits(s, i, D) == ScanChars(s, i, D)

\* radix^k
RECURSIVE BPow(_, _)
BPow(radix, k) ==
    IF k = 0 THEN <<1>>
    ELSE Bind({
             IF h = h /\ k % 2 = 1 THEN BMulSmall(BMul(h, h), radix) ELSE BMul(h, h)
      : h \in {BPow(radix, k \div 2)} })

\* The value of the digits s[i], ..., s[j-1] in the given radix.
RECURSIVE DigitsValue(_, _, _, _)
DigitsValue(s, i, j, radix) ==
    IF j <= i THEN << >>
    ELSE IF j = i + 1 THEN BFromInt(DigitValue(s[i]))
    ELSE Bind({
         Bind({
         Bind({
             IF high = high /\ low = low
             THEN BAdd(BMul(high, BPow(radix, j - mid)), low)
             ELSE << >>
           : low \in {DigitsValue(s, mid, j, radix)} })
           : high \in {DigitsValue(s, i, mid, radix)} })
      : mid \in {(i + j) \div 2} })

\* The value of the digits s[i], ..., s[j-1] of an exponent, or MaxExponent
\* when it has ten digits or more after its leading zeros: a literal holds
\* fewer digits than that, so its value is 0 or Infinity either way.
MaxExponent == 1000000000

RECURSIVE SmallDigitsValue(_, _, _)
SmallDigitsValue(s, i, j) ==
    IF j <= i THEN 0 ELSE 10 * SmallDigitsValue(s, i, j - 1) + DigitValue(s[j - 1])

ExponentValue(s, i, j) ==
    Bind({
        IF j - z > 9 THEN MaxExponent ELSE SmallDigitsValue(s, z, j)
      : z \in {ScanChars(SubSeq(s, 1, j - 1), i, {"0"})} })

\* String.prototype.trim
TrimEnd(s) ==
    SubSeq(s, 1, CHOOSE j \in 0..Len(s) :
                     /\ \A k \in (j + 1)..Len(s) : s[k] \in WhiteSpaceChars
                     /\ j >= 1 => s[j] \notin WhiteSpaceChars)

trim(s) == TrimEnd(SubSeq(s, SkipSpace(s, 1), Len(s)))

\* The double nearest to (-1)^neg * n * 10^x.  A magnitude n of b bits lies
\* from 2^(b-1) up to 2^b, that is from 10^(3(b-1)/10) up to 10^(31b/100):
\* the product is Infinity from 10^311 on and 0 below 10^-331.
FromDecimal(neg, n, x) ==
    IF n = << >> THEN Zero(neg)
    ELSE Bind({
        IF (3 * (b - 1)) \div 10 + x > 310 THEN Infinity(neg)
        ELSE IF (31 * b) \div 100 + 1 + x < -330 THEN Zero(neg)
        ELSE IF x >= 0 THEN Round(neg, BMul(n, BPow(10, x)), 0, FALSE)
        ELSE FromRatio(neg, n, BPow(10, -x), 0)
      : b \in {BBitLen(n)} })

StartsWith(s, i, word) ==
    i + Len(word) - 1 <= Len(s) /\ SubSeq(s, i, i + Len(word) - 1) = word

\* parseFloat: leading white space, a sign, then Infinity or digits, a
\* fraction and an exponent; the longest such prefix is the number, and NaN
\* when there is none.
parseFloat(s) ==
    Bind({
    Bind({
    Bind({
    Bind({
    Bind({
    Bind({
    Bind({
        LET neg     == p0 <= Len(s) /\ s[p0] = "-"
            nFrac   == IF hasDot THEN p3 - (p2 + 1) ELSE 0
            nDigits == (p2 - p1) + nFrac
            hasExp  == p3 <= Len(s) /\ s[p3] \in {"e", "E"} /\ p5 > p4
            exp     == IF ~hasExp THEN 0
                       ELSE (IF s[p3 + 1] = "-" THEN -1 ELSE 1) * ExponentValue(s, p4, p5)
            digits  == SubSeq(s, p1, p2 - 1)
                         \o (IF hasDot THEN SubSeq(s, p2 + 1, p3 - 1) ELSE << >>)
        IN  IF StartsWith(s, p1, <<"I", "n", "f", "i", "n", "i", "t", "y">>)
            THEN Infinity(neg)
            ELSE IF nDigits = 0 THEN NaN
            ELSE FromDecimal(neg, DigitsValue(digits, 1, nDigits + 1, 10),
                             exp - nFrac)
      : p5 \in {ScanDigits(s, p4, DigitChars)} })
      : p4 \in {IF p3 + 1 <= Len(s) /\ s[p3 + 1] \in {"-", "+"} THEN p3 + 2 ELSE p3 + 1} })
      : p3 \in {IF hasDot THEN ScanDigits(s, p2 + 1, DigitChars) ELSE p2} })
      : hasDot \in {p2 <= Len(s) /\ s[p2] = "."} })
      : p2 \in {ScanDigits(s, p1, DigitChars)} })
      : p1 \in {IF p0 <= Len(s) /\ s[p0] \in {"-", "+"} THEN p0 + 1 ELSE p0} })
      : p0 \in {SkipSpace(s, 1)} })

\* parseInt without a radix: leading white space, a sign, 0x or 0X for
\* radix 16 and radix 10 otherwise, then digits of the radix; it stops at the
\* first character that is no such digit, and is NaN when there is none.
parseInt(s) ==
    Bind({
    Bind({
    Bind({
    Bind({
    Bind({
        IF p3 = p2 THEN NaN
        ELSE Round(p0 <= Len(s) /\ s[p0] = "-",
                   DigitsValue(s, p2, p3, IF hex THEN 16 ELSE 10), 0, FALSE)
      : p3 \in {ScanDigits(s, p2, IF hex THEN HexChars ELSE DigitChars)} })
      : p2 \in {IF hex THEN p1 + 2 ELSE p1} })
      : hex \in {StartsWith(s, p1, <<"0", "x">>) \/ StartsWith(s, p1, <<"0", "X">>)} })
      : p1 \in {IF p0 <= Len(s) /\ s[p0] \in {"-", "+"} THEN p0 + 1 ELSE p0} })
      : p0 \in {SkipSpace(s, 1)} })

\* The decimal digits of a, the highest first; << >> for 0.
RECURSIVE BDigits(_)
BDigits(a) ==
    IF a = << >> THEN << >>
    ELSE Bind({
             BDigits(d.q) \o <<CHOOSE c \in DigitChars : DigitValue(c) = d.r>>
      : d \in {BDivSmall(a, 10)} })

\* Up to n times: the four lowest decimal digits of a, then of what is left
\* of a; the digits, the highest first, and what is left of a after them.
RECURSIVE BDigitsChunk(_, _)
BDigitsChunk(a, n) ==
    IF n = 0 \/ a = << >> THEN [digits |-> << >>, q |-> a]
    ELSE Bind({
             LET four == <<d.r \div 1000, (d.r \div 100) % 10, (d.r \div 10) % 10, d.r % 10>>
                 rest == BDigitsChunk(d.q, n - 1)
             IN  [digits |-> rest.digits \o four, q |-> rest.q]
      : d \in {BDivSmall(a, 10000)} })

\* The decimal digits of a as numbers, the highest first, after zeros.
RECURSIVE BLongDigits(_)
BLongDigits(a) ==
    IF a = << >> THEN << >>
    ELSE Bind({ BLongDigits(c.q) \o c.digits : c \in {BDigitsChunk(a, 8)} })

DigitChar(d) == CHOOSE c \in DigitChars : DigitValue(c) = d

\* The number that the first k digits of D write.
DigitsPrefix(D, k) == DigitsValue([i \in 1..k |-> DigitChar(D[i])], 1, k + 1, 10)

\* Whether v * scale, read as a number, is |x|.
ReadsAs(v, scale, x) == Round(FALSE, BMul(v, scale), 0, FALSE) = [x EXCEPT !.neg = FALSE]

\* Whether the first k of the digits D of |x|, or the number after them, the
\* other digits taken as zeros, read back as |x|.
DigitsFit(x, D, k) ==
    Bind({
    Bind({
        ReadsAs(lo, scale, x) \/ ReadsAs(BAdd(lo, <<1>>), scale, x)
      : lo \in {DigitsPrefix(D, k)} })
      : scale \in {BPow(10, Len(D) - k)} })

\* The least k from i on whose digits fit; 17 digits always do.
RECURSIVE FewestDigits(_, _, _)
FewestDigits(x, D, i) ==
    IF i >= 17 \/ DigitsFit(x, D, i) THEN i ELSE FewestDigits(x, D, i + 1)

\* The digits s with the decimal point after the first of them and the
\* exponent point, after the sign of a negative number.
ExponentForm(neg, s, point) ==
    (IF neg THEN <<"-">> ELSE << >>)
      \o <<s[1]>>
      \o (IF Len(s) > 1 THEN <<".">> \o SubSeq(s, 2, Len(s)) ELSE << >>)
      \o <<"e", "+">> \o BDigits(BFromInt(point))

\* Number::toString for a finite x with |x| >= 10^21: the fewest digits that
\* read back as x, those nearest to x when there is a choice, in exponent
\* form.  X is |x| and D holds its decimal digits.
ExponentDigits(x, X, D) ==
    Bind({
    Bind({
    Bind({
    Bind({
    Bind({
    Bind({
        IF Len(s) > k THEN ExponentForm(x.neg, <<"1">>, Len(D))
        ELSE ExponentForm(x.neg, s, Len(D) - 1)
      : s \in {BDigits(IF useLo THEN lo ELSE hi)} })
      : useLo \in {IF ~ReadsAs(hi, scale, x) THEN TRUE
         ELSE IF ~ReadsAs(lo, scale, x) THEN FALSE
         ELSE Bind({ c < 0 \/ (c = 0 /\ BLimb(lo, 1) % 2 = 0) : c \in {BCmp(BSub(X, BMul(lo, scale)), BSub(BMul(hi, scale), X))} })} })
      : hi \in {BAdd(lo, <<1>>)} })
      : lo \in {DigitsPrefix(D, k)} })
      : scale \in {BPow(10, Len(D) - k)} })
      : k \in {FewestDigits(x, D, 1)} })

ExponentString(x) ==
    Bind({
    Bind({
    Bind({
        IF Len(X) > 0 /\ Len(all) > 0 /\ Len(D) > 0
        THEN ExponentDigits(x, X, D) ELSE << >>
      : D \in {SubSeq(all, CHOOSE z \in 1..Len(all) :
                         all[z] # 0 /\ \A y \in 1..(z - 1) : all[y] = 0,
                Len(all))} })
      : all \in {BLongDigits(X)} })
      : X \in {BShl(x.m, x.e)} })

\* Number.prototype.toFixed(2).  Below 10^21 it is the integer n with n / 100
\* nearest to |x|, the larger one of two, written with two decimals, after
\* the sign of a negative x; from 10^21 on it is the number as a string.
toFixed2(x) ==
    IF x.c = "nan" THEN <<"N", "a", "N">>
    ELSE IF x.c = "inf"
    THEN (IF x.neg THEN <<"-">> ELSE << >>) \o <<"I", "n", "f", "i", "n", "i", "t", "y">>
    ELSE IF x.e >= 0 /\ BCmp(BShl(x.m, x.e), BPow(10, 21)) >= 0
    THEN ExponentString(x)
    ELSE Bind({
         Bind({
         Bind({
             (IF x.neg /\ x.m # << >> THEN <<"-">> ELSE << >>)
               \o SubSeq(padded, 1, Len(padded) - 2) \o <<".">>
               \o SubSeq(padded, Len(padded) - 1, Len(padded))
           : padded \in {IF Len(digits) >= 3 THEN digits
              ELSE SubSeq(<<"0", "0", "0">>, 1, 3 - Len(digits)) \o digits} })
           : digits \in {BDigits(IF x.e >= 0 THEN BShl(h, x.e)
                      ELSE IF BBit(h, (-x.e) - 1) = 1 THEN BAdd(BShr(h, -x.e), <<1>>)
                      ELSE BShr(h, -x.e))} })
      : h \in {BMulSmall(x.m, 100)} })

----------------------------------------------------------------------------
(* State *)

VARIABLES
    GRADING_SCALE,     \* script.js: the array of grade bands
    GRADE_SCALE,       \* GradeCalculator.java: the TreeMap of band minimums
    courseCounter,     \* script.js: the id given to the last added course row
    rows,              \* the .course-row elements of #coursesContainer, in order
    timers,            \* the pending setTimeout callbacks of removeCourse, in order
    currentCGPA,       \* the value of the field #currentCGPA
    completedCredits,  \* the value of the field #completedCredits
    totalSemesters,    \* the value of the field #totalSemesters
    cgpaResults,       \* the results panel #cgpaResults and the elements in it
    alerted,           \* the message alert() showed in the last event, or ""
    lastRun,           \* what the last calculateCGPA that got through computed
    watched,           \* the row element some removeCourse call found, followed
                       \* from that call on as the timers follow theirs; << >> at first
    call               \* the last call of a library operation and its result

----------------------------------------------------------------------------
(* Grade lookup *)

\* script.js GRADING_SCALE as written.
GradingScaleLiteral ==
    << [min |-> Num(90), max |-> Num(100), grade |-> "A+", point |-> Num(4)],
       [min |-> Num(85), max |-> Num(89),  grade |-> "A",  point |-> Rat(15, 4)],
       [min |-> Num(80), max |-> Num(84),  grade |-> "B+", point |-> Rat(7, 2)],
       [min |-> Num(75), max |-> Num(79),  grade |-> "B",  point |-> Rat(13, 4)],
       [min |-> Num(70), max |-> Num(74),  grade |-> "C+", point |-> Num(3)],
       [min |-> Num(65), max |-> Num(69),  grade |-> "C",  point |-> Rat(11, 4)],
       [min |-> Num(60), max |-> Num(64),  grade |-> "D+", point |-> Rat(5, 2)],
       [min |-> Num(50), max |-> Num(59),  grade |-> "D",  point |-> Rat(9, 4)],
       [min |-> Num(0),  max |-> Num(49),  grade |-> "F",  point |-> Num(0)] >>

\* GradeCalculator.GradeInfo
GradeInfo(letterGrade, gradePoint) ==
    [letterGrade |-> letterGrade, gradePoint |-> gradePoint]

\* GradeCalculator.java GRADE_SCALE after the static initializer.
GradeScaleLiteral ==
    (90 :> GradeInfo("A+", Num(4)))      @@ (85 :> GradeInfo("A", Rat(15, 4))) @@
    (80 :> GradeInfo("B+", Rat(7, 2)))   @@ (75 :> GradeInfo("B", Rat(13, 4))) @@
    (70 :> GradeInfo("C+", Num(3)))      @@ (65 :> GradeInfo("C", Rat(11, 4))) @@
    (60 :> GradeInfo("D+", Rat(5, 2)))   @@ (50 :> GradeInfo("D", Rat(9, 4)))  @@
    (0  :> GradeInfo("F", Num(0)))

\* ScanScale with the upper end of a band excluded (marks < scale.max).
RECURSIVE ScanScale_exclusiveMax(_, _)
ScanScale_exclusiveMax(marks, i) ==
    IF i > Len(GRADING_SCALE) THEN [grade |-> "F", point |-> Num(0)]
    ELSE IF Ge(marks, GRADING_SCALE[i].min) /\ Lt(marks, GRADING_SCALE[i].max)
         THEN [grade |-> GRADING_SCALE[i].grade, point |-> GRADING_SCALE[i].point]
         ELSE ScanScale_exclusiveMax(marks, i + 1)

\* The for-of loop of marksToGrade from band i on; the result after the loop
\* is the fallback.
RECURSIVE ScanScale(_, _)
ScanScale(marks, i) ==
    IF i > Len(GRADING_SCALE) THEN [grade |-> "F", point |-> Num(0)]
    ELSE IF Ge(marks, GRADING_SCALE[i].min) /\ Le(marks, GRADING_SCALE[i].max)
         THEN [grade |-> GRADING_SCALE[i].grade, point |-> GRADING_SCALE[i].point]
         ELSE ScanScale(marks, i + 1)

\* marksToGrade without the test marks > 100.
marksToGrade_noUpperTest(marks) ==
    IF Lt(marks, Num(0))
    THEN [grade |-> "Invalid", point |-> Num(0)]
    ELSE ScanScale(marks, 1)

\* script.js marksToGrade
marksToGrade(marks) ==
    IF Lt(marks, Num(0)) \/ Gt(marks, Num(100))
    THEN [grade |-> "Invalid", point |-> Num(0)]
    ELSE ScanScale(marks, 1)

\* A thrown IllegalArgumentException
IllegalArgumentException(message) ==
    [exception |-> "IllegalArgumentException", message |-> message]

Threw(r) == "exception" \in DOMAIN r

\* TreeMap.floorEntry: the entry of the greatest key <= k; << >> stands for null.
floorEntry(map, k) ==
    LET keys == {x \in DOMAIN map : x <= k}
    IN  IF keys = {} THEN << >>
        ELSE LET key == CHOOSE x \in keys : \A y \in keys : y <= x
             IN  [key |-> key, value |-> map[key]]

\* GradeCalculator.marksToGrade
GradeCalculator_marksToGrade(marks) ==
    IF Lt(marks, Num(0)) \/ Gt(marks, Num(100))
    THEN IllegalArgumentException("Marks must be between 0 and 100")
    ELSE Bind({ IF entry # << >> THEN entry.value
                             ELSE GradeInfo("F", Num(0))
      : entry \in {floorEntry(GRADE_SCALE, IntCast(marks))} })

----------------------------------------------------------------------------
(* Semester GPA and cumulative CGPA *)

\* The forEach loop of calculateSemesterGPA: the totals after courses i..Len.
RECURSIVE SemesterTotals(_, _, _)
SemesterTotals(courses, i, acc) ==
    IF i > Len(courses) THEN acc
    ELSE LET gradeInfo == marksToGrade(courses[i].marks)
         IN  SemesterTotals(courses, i + 1,
                 [totalPoints  |-> Plus(acc.totalPoints,
                                        Times(gradeInfo.point, courses[i].credits)),
                  totalCredits |-> Plus(acc.totalCredits, courses[i].credits)])

\* script.js calculateSemesterGPA
calculateSemesterGPA(courses) ==
    IF Len(courses) = 0 THEN Num(0)
    ELSE Bind({ IF Gt(t.totalCredits, Num(0))
                         THEN Over(t.totalPoints, t.totalCredits)
                         ELSE Num(0)
      : t \in {SemesterTotals(courses, 1,
                  [totalPoints |-> Num(0), totalCredits |-> Num(0)])} })

\* script.js calculateCumulativeCGPA
calculateCumulativeCGPA(prevCGPA, prevCredits, currentGPA, currentCredits) ==
    Bind({
             IF Gt(totalCredits, Num(0))
             THEN Over(Plus(Times(prevCGPA, prevCredits),
                            Times(currentGPA, currentCredits)),
                       totalCredits)
             ELSE Num(0)
      : totalCredits \in {Plus(prevCredits, currentCredits)} })

\* The for loop of GradeCalculator.calculateSemesterGPA from course i on; a
\* throw of marksToGrade ends it.  Course.credits and totalCredits are ints.
RECURSIVE GradeCalculator_SemesterTotals(_, _, _)
GradeCalculator_SemesterTotals(courses, i, acc) ==
    IF i > Len(courses) THEN acc
    ELSE Bind({
                  IF Threw(grade) THEN grade
                  ELSE GradeCalculator_SemesterTotals(courses, i + 1,
                           [totalPoints  |-> Plus(acc.totalPoints,
                                                  Times(grade.gradePoint,
                                                        IntToDouble(courses[i].credits))),
                            totalCredits |-> IntAdd(acc.totalCredits, courses[i].credits)])
      : grade \in {GradeCalculator_marksToGrade(courses[i].marks)} })

\* GradeCalculator.calculateSemesterGPA
GradeCalculator_calculateSemesterGPA(courses) ==
    IF Len(courses) = 0 THEN Num(0)
    ELSE Bind({ IF Threw(t) THEN t
                         ELSE IF t.totalCredits > 0
                         THEN Over(t.totalPoints, IntToDouble(t.totalCredits))
                         ELSE Num(0)
      : t \in {GradeCalculator_SemesterTotals(courses, 1,
                  [totalPoints |-> Num(0), totalCredits |-> 0])} })

\* GradeCalculator.calculateCumulativeCGPA; the credits are ints.
GradeCalculator_calculateCumulativeCGPA(previousCGPA, previousCredits, currentGPA, currentCredits) ==
    IF previousCredits < 0 \/ currentCredits < 0
    THEN IllegalArgumentException("Credits cannot be negative")
    ELSE IF Lt(previousCGPA, Num(0)) \/ Gt(previousCGPA, Num(4))
    THEN IllegalArgumentException("CGPA must be between 0.0 and 4.0")
    ELSE Bind({
                  IF totalCredits > 0
                  THEN Over(Plus(Times(previousCGPA, IntToDouble(previousCredits)),
                                 Times(currentGPA, IntToDouble(currentCredits))),
                            IntToDouble(totalCredits))
                  ELSE Num(0)
      : totalCredits \in {IntAdd(previousCredits, currentCredits)} })

----------------------------------------------------------------------------
(* Academic status *)

\* getAcademicStatus with the threshold 2.0 excluded (cgpa > 2.0).
getAcademicStatus_strictWarning(cgpa) ==
    IF Ge(cgpa, Rat(15, 4))
    THEN [text |-> "Dean's List", icon |-> "trophy", class |-> "status-excellent"]
    ELSE IF Ge(cgpa, Rat(7, 2))
    THEN [text |-> "Excellent Standing", icon |-> "star", class |-> "status-excellent"]
    ELSE IF Ge(cgpa, Num(3))
    THEN [text |-> "Good Standing", icon |-> "check", class |-> "status-good"]
    ELSE IF Ge(cgpa, Rat(5, 2))
    THEN [text |-> "Satisfactory", icon |-> "", class |-> "status-good"]
    ELSE IF Gt(cgpa, Num(2))
    THEN [text |-> "Warning", icon |-> "warning", class |-> "status-warning"]
    ELSE [text |-> "Academic Probation", icon |-> "warning", class |-> "status-probation"]

\* script.js getAcademicStatus.  The text of the source is the label followed,
\* for five of the six labels, by a pictograph: the label is the field text
\* and the pictograph the field icon.
getAcademicStatus(cgpa) ==
    IF Ge(cgpa, Rat(15, 4))
    THEN [text |-> "Dean's List", icon |-> "trophy", class |-> "status-excellent"]
    ELSE IF Ge(cgpa, Rat(7, 2))
    THEN [text |-> "Excellent Standing", icon |-> "star", class |-> "status-excellent"]
    ELSE IF Ge(cgpa, Num(3))
    THEN [text |-> "Good Standing", icon |-> "check", class |-> "status-good"]
    ELSE IF Ge(cgpa, Rat(5, 2))
    THEN [text |-> "Satisfactory", icon |-> "", class |-> "status-good"]
    ELSE IF Ge(cgpa, Num(2))
    THEN [text |-> "Warning", icon |-> "warning", class |-> "status-warning"]
    ELSE [text |-> "Academic Probation", icon |-> "warning", class |-> "status-probation"]

\* GradeCalculator.getAcademicStatus
GradeCalculator_getAcademicStatus(cgpa) ==
    IF Lt(cgpa, Num(0)) \/ Gt(cgpa, Num(4)) THEN "Invalid CGPA"
    ELSE IF Ge(cgpa, Rat(15, 4)) THEN "Dean's List"
    ELSE IF Ge(cgpa, Rat(7, 2)) THEN "Excellent Standing"
    ELSE IF Ge(cgpa, Num(3)) THEN "Good Standing"
    ELSE IF Ge(cgpa, Rat(5, 2)) THEN "Satisfactory"
    ELSE IF Ge(cgpa, Num(2)) THEN "Warning"
    ELSE "Academic Probation"

----------------------------------------------------------------------------
(* The form *)

\* A .course-row element: id is its data-course-id; title, credits and marks
\* are the values of its three fields, gradeResult its .grade-result element
\* and animation its style.animation.  The text of .grade-result is label
\* alone, or label followed by fixed in parentheses when fixed is not empty.
CourseRow(id, animation) ==
    [id |-> id, title |-> << >>, credits |-> << >>, marks |-> << >>,
     gradeResult |-> [label |-> "-", fixed |-> << >>, color |-> ""],
     animation |-> animation]

\* The page as loaded: one course row, with id 1, empty fields and the
\* results panel hidden.  It is the page resetCalculator goes back to.
FirstRow == CourseRow(1, "")

HiddenResults ==
    [display |-> "none", semesterGPA |-> << >>, newCGPA |-> << >>,
     totalCredits |-> << >>, academicStatus |-> [text |-> "", icon |-> ""],
     statusClass |-> ""]

NoRun == [ran |-> FALSE]

\* script.js getGradeColor
getGradeColor(grade) ==
    CASE grade \in {"A+", "A"} -> "#16a34a"
      [] grade \in {"B+", "B"} -> "#004ea2"
      [] grade \in {"C+", "C"} -> "#64748b"
      [] grade \in {"D+", "D"} -> "#b45309"
      [] grade = "F"           -> "#dc2626"
      [] OTHER                 -> "#f59e0b"

\* The 'input' listener of attachRealTimeListeners on a .course-marks field
\* holding value: the contents it gives the row's .grade-result.
GradeDisplay(value) ==
    Bind({
             IF ~isNaN(marks) /\ Ge(marks, Num(0)) /\ Le(marks, Num(100))
             THEN Bind({
                           [label |-> gradeInfo.grade,
                            fixed |-> toFixed2(gradeInfo.point),
                            color |-> getGradeColor(gradeInfo.grade)]
               : gradeInfo \in {marksToGrade(marks)} })
             ELSE IF Gt(marks, Num(100))
             THEN [label |-> "Max 100", fixed |-> << >>, color |-> "#ef4444"]
             ELSE [label |-> "-", fixed |-> << >>, color |-> "#f59e0b"]
      : marks \in {parseFloat(value)} })

\* The user types value into the title field of row i; no listener runs.
InputTitle(V) ==
    \E i \in DOMAIN rows, value \in V :
        /\ rows[i].title # value
        /\ rows' = [rows EXCEPT ![i].title = value]
        /\ alerted' = ""
        /\ UNCHANGED <<courseCounter, timers, currentCGPA, completedCredits,
                       totalSemesters, cgpaResults, lastRun, watched>>

\* The user types value into the credits field of row i; no listener runs.
InputCredits(V) ==
    \E i \in DOMAIN rows, value \in V :
        /\ rows[i].credits # value
        /\ rows' = [rows EXCEPT ![i].credits = value]
        /\ alerted' = ""
        /\ UNCHANGED <<courseCounter, timers, currentCGPA, completedCredits,
                       totalSemesters, cgpaResults, lastRun, watched>>

\* An 'input' event of the marks field of row i, which then holds value: the
\* listener shows the grade.  The event also comes when the field turns down
\* what was typed and holds what it held.
InputMarks(V) ==
    \E i \in DOMAIN rows, value \in V :
        /\ rows' = [rows EXCEPT ![i].marks = value,
                                ![i].gradeResult = GradeDisplay(value)]
        /\ alerted' = ""
        /\ UNCHANGED <<courseCounter, timers, currentCGPA, completedCredits,
                       totalSemesters, cgpaResults, lastRun, watched>>

\* The user types value into the field #currentCGPA; no listener runs.
InputCurrentCGPA(V) ==
    \E value \in V :
        /\ currentCGPA # value
        /\ currentCGPA' = value
        /\ alerted' = ""
        /\ UNCHANGED <<courseCounter, rows, timers, completedCredits,
                       totalSemesters, cgpaResults, lastRun, watched>>

\* The user types value into the field #completedCredits; no listener runs.
InputCompletedCredits(V) ==
    \E value \in V :
        /\ completedCredits # value
        /\ completedCredits' = value
        /\ alerted' = ""
        /\ UNCHANGED <<courseCounter, rows, timers, currentCGPA,
                       totalSemesters, cgpaResults, lastRun, watched>>

\* The user types value into the field #totalSemesters; no listener runs,
\* and no function reads the field.
InputTotalSemesters(V) ==
    \E value \in V :
        /\ totalSemesters # value
        /\ totalSemesters' = value
        /\ alerted' = ""
        /\ UNCHANGED <<courseCounter, rows, timers, currentCGPA, completedCredits,
                       cgpaResults, lastRun, watched>>

\* The course counter is followed up to MaxCounter.
MaxCounter == 2

\* At most MaxTimers removal timers are pending at a time.
MaxTimers == 1

\* A timer holds the row element removeCourse found: it is written as the
\* place of that row among the rows, and as Detached once the element is no
\* longer in the container.
Detached == 0

\* script.js addCourse
addCourse ==
    /\ courseCounter < MaxCounter
    /\ courseCounter' = courseCounter + 1
    /\ rows' = Append(rows, CourseRow(courseCounter + 1, "slideIn 0.5s ease"))
    /\ alerted' = ""
    /\ UNCHANGED <<timers, currentCGPA, completedCredits, totalSemesters,
                   cgpaResults, lastRun, watched>>

\* querySelector(`[data-course-id="${courseId}"]`): the index of the first
\* row with that id, 0 for null.
QueryCourseRow(courseId) ==
    IF \E i \in DOMAIN rows : rows[i].id = courseId
    THEN CHOOSE i \in DOMAIN rows :
            /\ rows[i].id = courseId
            /\ \A j \in DOMAIN rows : rows[j].id = courseId => i <= j
    ELSE 0

\* script.js removeCourse(courseId), called by the remove button of a row,
\* which passes the id of its row.
removeCourse ==
    \E b \in DOMAIN rows :
        LET courseId  == rows[b].id
            courseRow == QueryCourseRow(courseId)
        IN  /\ Len(timers) < MaxTimers
            /\ IF courseRow # 0
               THEN /\ rows' = [rows EXCEPT ![courseRow].animation = "slideOut 0.3s ease"]
                    /\ timers' = Append(timers, courseRow)
                    /\ watched' \in IF watched \in {<< >>, <<Detached>>}
                                    THEN {watched, <<courseRow>>}
                                    ELSE {watched}
               ELSE UNCHANGED <<rows, timers, watched>>
            /\ alerted' = ""
            /\ UNCHANGED <<courseCounter, currentCGPA, completedCredits,
                           totalSemesters, cgpaResults, lastRun>>

\* Element.remove on the row at place p: the rows that stay.
RemoveElement(rs, p) ==
    IF p = Detached THEN rs
    ELSE SubSeq(rs, 1, p - 1) \o SubSeq(rs, p + 1, Len(rs))

\* The timers ts once the row at place p has left the container.
Retarget(ts, p) ==
    [k \in DOMAIN ts |->
        IF p = Detached \/ ts[k] < p THEN ts[k]
        ELSE IF ts[k] = p THEN Detached
        ELSE ts[k] - 1]

\* The callback removeCourse gave setTimeout runs: courseRow.remove().
TimerFires ==
    /\ timers # << >>
    /\ rows' = RemoveElement(rows, Head(timers))
    /\ timers' = Retarget(Tail(timers), Head(timers))
    /\ watched' = Retarget(watched, Head(timers))
    /\ alerted' = ""
    /\ UNCHANGED <<courseCounter, currentCGPA, completedCredits, totalSemesters,
                   cgpaResults, lastRun>>

\* getAllCourses letting a row with credits 0 through (credits >= 0).
RECURSIVE CoursesFrom_zeroCredits(_, _)
CoursesFrom_zeroCredits(rs, i) ==
    IF i > Len(rs) THEN << >>
    ELSE Bind({
         Bind({
         Bind({
             IF /\ title # << >> /\ ~isNaN(credits) /\ ~isNaN(marks)
                /\ Ge(credits, Num(0)) /\ Ge(marks, Num(0)) /\ Le(marks, Num(100))
             THEN <<[title |-> title, credits |-> credits, marks |-> marks]>>
                      \o CoursesFrom_zeroCredits(rs, i + 1)
             ELSE CoursesFrom_zeroCredits(rs, i + 1)
           : marks \in {parseFloat(rs[i].marks)} })
           : credits \in {parseFloat(rs[i].credits)} })
      : title \in {trim(rs[i].title)} })

\* script.js getAllCourses, from row i on.
RECURSIVE CoursesFrom(_, _)
CoursesFrom(rs, i) ==
    IF i > Len(rs) THEN << >>
    ELSE Bind({
         Bind({
         Bind({
             IF /\ title # << >> /\ ~isNaN(credits) /\ ~isNaN(marks)
                /\ Gt(credits, Num(0)) /\ Ge(marks, Num(0)) /\ Le(marks, Num(100))
             THEN <<[title |-> title, credits |-> credits, marks |-> marks]>>
                      \o CoursesFrom(rs, i + 1)
             ELSE CoursesFrom(rs, i + 1)
           : marks \in {parseFloat(rs[i].marks)} })
           : credits \in {parseFloat(rs[i].credits)} })
      : title \in {trim(rs[i].title)} })

getAllCourses == CoursesFrom(rows, 1)

\* courses.reduce((sum, course) => sum + course.credits, 0), from course i
\* on with the sum so far.
RECURSIVE SumCredits(_, _, _)
SumCredits(courses, i, sum) ==
    IF i > Len(courses) THEN sum
    ELSE SumCredits(courses, i + 1, Plus(sum, courses[i].credits))

\* script.js displayCGPAResults.  The text of #totalCredits is the number
\* totalCredits as a string; the number itself stands for it, in a sequence
\* of its own.
displayCGPAResults(semesterGPA, newCGPA, totalCredits, status) ==
    cgpaResults' =
        [display |-> "block", semesterGPA |-> toFixed2(semesterGPA),
         newCGPA |-> toFixed2(newCGPA), totalCredits |-> <<totalCredits>>,
         academicStatus |-> [text |-> status.text, icon |-> status.icon],
         statusClass |-> status.class]

\* calculateCGPA without its test of the completed credits.
calculateCGPA_noCreditsCheck ==
    /\ \E cgpa \in {OrZero(parseFloat(currentCGPA))},
          completed \in {OrZero(parseInt(completedCredits))} :
           IF Lt(cgpa, Num(0)) \/ Gt(cgpa, Num(4))
           THEN /\ alerted' = "Current CGPA must be between 0.0 and 4.0"
                /\ UNCHANGED <<cgpaResults, lastRun>>
           ELSE \E courses \in {getAllCourses} :
                IF Len(courses) = 0
                THEN /\ alerted' = "Please add at least one course with valid information"
                     /\ UNCHANGED <<cgpaResults, lastRun>>
                ELSE \E semesterGPA \in {calculateSemesterGPA(courses)},
                        currentCredits \in {SumCredits(courses, 1, Num(0))} :
                     \E newCGPA \in {calculateCumulativeCGPA(cgpa, completed, semesterGPA,
                                                              currentCredits)} :
                         /\ displayCGPAResults(semesterGPA, newCGPA,
                                               Plus(completed, currentCredits),
                                               getAcademicStatus(newCGPA))
                         /\ lastRun' = [ran |-> TRUE, currentCGPA |-> cgpa,
                                        completedCredits |-> completed,
                                        courses |-> courses,
                                        semesterGPA |-> semesterGPA,
                                        currentCredits |-> currentCredits,
                                        newCGPA |-> newCGPA]
                         /\ alerted' = ""
    /\ UNCHANGED <<courseCounter, rows, timers, currentCGPA, completedCredits,
                   totalSemesters, watched>>

\* script.js calculateCGPA
calculateCGPA ==
    /\ \E cgpa \in {OrZero(parseFloat(currentCGPA))},
          completed \in {OrZero(parseInt(completedCredits))} :
           IF Lt(cgpa, Num(0)) \/ Gt(cgpa, Num(4))
           THEN /\ alerted' = "Current CGPA must be between 0.0 and 4.0"
                /\ UNCHANGED <<cgpaResults, lastRun>>
           ELSE IF Lt(completed, Num(0))
           THEN /\ alerted' = "Completed credits cannot be negative"
                /\ UNCHANGED <<cgpaResults, lastRun>>
           ELSE \E courses \in {getAllCourses} :
                IF Len(courses) = 0
                THEN /\ alerted' = "Please add at least one course with valid information"
                     /\ UNCHANGED <<cgpaResults, lastRun>>
                ELSE \E semesterGPA \in {calculateSemesterGPA(courses)},
                        currentCredits \in {SumCredits(courses, 1, Num(0))} :
                     \E newCGPA \in {calculateCumulativeCGPA(cgpa, completed, semesterGPA,
                                                              currentCredits)} :
                         /\ displayCGPAResults(semesterGPA, newCGPA,
                                               Plus(completed, currentCredits),
                                               getAcademicStatus(newCGPA))
                         /\ lastRun' = [ran |-> TRUE, currentCGPA |-> cgpa,
                                        completedCredits |-> completed,
                                        courses |-> courses,
                                        semesterGPA |-> semesterGPA,
                                        currentCredits |-> currentCredits,
                                        newCGPA |-> newCGPA]
                         /\ alerted' = ""
    /\ UNCHANGED <<courseCounter, rows, timers, currentCGPA, completedCredits,
                   totalSemesters, watched>>

\* script.js resetCalculator
resetCalculator ==
    /\ currentCGPA' = <<"0">>
    /\ completedCredits' = <<"0">>
    /\ totalSemesters' = <<"0">>
    /\ rows' = IF rows = << >> THEN << >>
               ELSE <<[rows[1] EXCEPT !.title = << >>, !.credits = << >>,
                                      !.marks = << >>,
                                      !.gradeResult = [label |-> "-", fixed |-> << >>,
                                                       color |-> "#f59e0b"]]>>
    /\ timers' = [k \in DOMAIN timers |-> IF timers[k] > 1 THEN Detached ELSE timers[k]]
    /\ watched' = [k \in DOMAIN watched |-> IF watched[k] > 1 THEN Detached ELSE watched[k]]
    /\ courseCounter' = 1
    /\ cgpaResults' = [cgpaResults EXCEPT !.display = "none"]
    /\ alerted' = ""
    /\ UNCHANGED lastRun

----------------------------------------------------------------------------
(* Calls of the library operations *)

\* Marks are tried from -MarksMargin to 100 + MarksMargin in steps of 0.5,
\* the step of the marks field of the form, and so are NaN and the infinities.
MarksMargin == 2

MarksInputs ==
    {Rat(k, 2) : k \in (-2 * MarksMargin)..(2 * (100 + MarksMargin))}
        \cup {NaN, Infinity(FALSE), Infinity(TRUE)}

\* Course lists of up to MaxCourses courses.
MaxCourses == 2

CourseMarks == {Num(45), Rat(179, 2), Num(90), Num(101)}

CourseInputs ==
    [title : {"Java"}, credits : {Num(0), Num(1), Rat(3, 2), Num(3)}, marks : CourseMarks]

\* Course.credits is an int in GradeCalculator.java.
JavaCourseInputs == [title : {"Java"}, credits : {0, 1, 3, MaxInt}, marks : CourseMarks]

CourseLists(S) == UNION {[1..n -> S] : n \in 0..MaxCourses}

\* CGPA values from -0.5 to 4.5 in steps of 0.25, and 3.45.
CgpaInputs == {Rat(k, 4) : k \in (-2)..18} \cup {Rat(69, 20)}

GpaInputs == {Rat(k, 2) : k \in 0..9} \cup {Rat(31, 8)}

\* Credit counts from -1 to MaxCreditsArg, 12 and 36, and 2^30 and 2^31 - 1.
MaxCreditsArg == 3

CreditInputs == ((-1)..MaxCreditsArg) \cup {12, 36, 1073741824, MaxInt}

\* CGPA values from -0.5 to 4.5 in steps of 0.01, values just below a
\* threshold, the last of them the number next to 2.5, and NaN and the
\* infinities.
StatusInputs ==
    {Rat(k, 100) : k \in (-50)..450}
        \cup {Rat(3749999, 1000000), Rat(1999999, 1000000),
              Over(Plus(Times(Rat(23, 10), Num(45)), Num(24)), Num(51)),
              NaN, Infinity(FALSE), Infinity(TRUE)}

\* A call of a library operation: first the request with its arguments, then
\* the same with the result the operation returned or the exception it threw.
Request(op, impl, args) == [op |-> op, impl |-> impl, args |-> args, done |-> FALSE]

NoCall == [op |-> "none", impl |-> "none", done |-> TRUE]

Requested(op, impl) == call.op = op /\ call.impl = impl /\ ~call.done

Return(result) ==
    call' = [op |-> call.op, impl |-> call.impl, args |-> call.args,
             done |-> TRUE, result |-> result]

\* marksToGrade(marks) of script.js runs.
CallMarksToGrade ==
    /\ Requested("marksToGrade", "js")
    /\ Return(marksToGrade(call.args.marks))

\* GradeCalculator.marksToGrade(marks) runs.
CallGradeCalculatorMarksToGrade ==
    /\ Requested("marksToGrade", "java")
    /\ Return(GradeCalculator_marksToGrade(call.args.marks))

\* calculateSemesterGPA(courses) of script.js runs.
CallCalculateSemesterGPA ==
    /\ Requested("calculateSemesterGPA", "js")
    /\ Return(calculateSemesterGPA(call.args.courses))

\* GradeCalculator.calculateSemesterGPA(courses) runs.
CallGradeCalculatorCalculateSemesterGPA ==
    /\ Requested("calculateSemesterGPA", "java")
    /\ Return(GradeCalculator_calculateSemesterGPA(call.args.courses))

\* calculateCumulativeCGPA of script.js runs.
CallCalculateCumulativeCGPA ==
    /\ Requested("calculateCumulativeCGPA", "js")
    /\ Return(calculateCumulativeCGPA(call.args.prevCGPA, call.args.prevCredits,
                                      call.args.currentGPA, call.args.currentCredits))

\* GradeCalculator.calculateCumulativeCGPA runs; its credits are ints.
CallGradeCalculatorCalculateCumulativeCGPA ==
    /\ Requested("calculateCumulativeCGPA", "java")
    /\ Return(GradeCalculator_calculateCumulativeCGPA(
                  call.args.prevCGPA, call.args.prevCredits,
                  call.args.currentGPA, call.args.currentCredits))

\* getAcademicStatus(cgpa) of script.js runs.
CallGetAcademicStatus ==
    /\ Requested("getAcademicStatus", "js")
    /\ Return(getAcademicStatus(call.args.cgpa))

\* GradeCalculator.getAcademicStatus(cgpa) runs.
CallGradeCalculatorGetAcademicStatus ==
    /\ Requested("getAcademicStatus", "java")
    /\ Return(GradeCalculator_getAcademicStatus(call.args.cgpa))

\* The requests of each operation over the given inputs.
MarksToGradeRequests(M) ==
    {Request("marksToGrade", impl, [marks |-> marks]) :
        impl \in {"js", "java"}, marks \in M}

SemesterGPARequests(L, JL) ==
    {Request("calculateSemesterGPA", "js", [courses |-> courses]) : courses \in L}
      \cup
    {Request("calculateSemesterGPA", "java", [courses |-> courses]) : courses \in JL}

CumulativeCGPARequests(P, PC, G, GC) ==
    {Request("calculateCumulativeCGPA", "js",
             [prevCGPA |-> a[1], prevCredits |-> Num(a[2]),
              currentGPA |-> a[3], currentCredits |-> Num(a[4])]) :
        a \in P \X PC \X G \X GC}
      \cup
    {Request("calculateCumulativeCGPA", "java",
             [prevCGPA |-> a[1], prevCredits |-> a[2],
              currentGPA |-> a[3], currentCredits |-> a[4]]) :
        a \in P \X PC \X G \X GC}

AcademicStatusRequests(C) ==
    {Request("getAcademicStatus", impl, [cgpa |-> cgpa]) :
        impl \in {"js", "java"}, cgpa \in C}

----------------------------------------------------------------------------
(* The library on its own: every operation called on every input *)

formVars ==
    <<courseCounter, rows, timers, currentCGPA, completedCredits, totalSemesters,
      cgpaResults, alerted, lastRun, watched>>

tables == <<GRADING_SCALE, GRADE_SCALE>>

vars ==
    <<GRADING_SCALE, GRADE_SCALE, courseCounter, rows, timers, currentCGPA,
      completedCredits, totalSemesters, cgpaResults, alerted, lastRun, watched,
      call>>

LibRequests ==
    MarksToGradeRequests(MarksInputs)
      \cup SemesterGPARequests(CourseLists(CourseInputs), CourseLists(JavaCourseInputs))
      \cup CumulativeCGPARequests(CgpaInputs, CreditInputs, GpaInputs, CreditInputs)
      \cup AcademicStatusRequests(StatusInputs)

\* The scripts have run and DOMContentLoaded has fired.
PageLoaded ==
    /\ GRADING_SCALE = GradingScaleLiteral
    /\ GRADE_SCALE = GradeScaleLiteral
    /\ courseCounter = 1
    /\ rows = <<FirstRow>>
    /\ timers = << >>
    /\ currentCGPA = << >>
    /\ completedCredits = << >>
    /\ totalSemesters = << >>
    /\ cgpaResults = HiddenResults
    /\ alerted = ""
    /\ lastRun = NoRun
    /\ watched = << >>

LibInit == PageLoaded /\ call \in LibRequests

LibKeeps == UNCHANGED <<tables, formVars>>

LibNext ==
    \/ CallMarksToGrade /\ LibKeeps
    \/ CallGradeCalculatorMarksToGrade /\ LibKeeps
    \/ CallCalculateSemesterGPA /\ LibKeeps
    \/ CallGradeCalculatorCalculateSemesterGPA /\ LibKeeps
    \/ CallCalculateCumulativeCGPA /\ LibKeeps
    \/ CallGradeCalculatorCalculateCumulativeCGPA /\ LibKeeps
    \/ CallGetAcademicStatus /\ LibKeeps
    \/ CallGradeCalculatorGetAcademicStatus /\ LibKeeps

LibSpec == LibInit /\ [][LibNext]_vars

----------------------------------------------------------------------------
(* The form in use: every handler, on what a user types *)

TitleInputs == { <<"J", "a", "v", "a">> }

CreditsInputs == { <<"3">> }

MarksFieldInputs == { << >>, <<"9", "0">> }

CurrentCGPAInputs == { <<"4", ".", "5">> }

CompletedCreditsInputs == { <<"-", "3">> }

TotalSemestersInputs == { <<"5">> }

Init == PageLoaded /\ call = NoCall

FormKeeps == UNCHANGED <<tables, call>>

Next ==
    \/ InputTitle(TitleInputs) /\ FormKeeps
    \/ InputCredits(CreditsInputs) /\ FormKeeps
    \/ InputMarks(MarksFieldInputs) /\ FormKeeps
    \/ InputCurrentCGPA(CurrentCGPAInputs) /\ FormKeeps
    \/ InputCompletedCredits(CompletedCreditsInputs) /\ FormKeeps
    \/ InputTotalSemesters(TotalSemestersInputs) /\ FormKeeps
    \/ addCourse /\ FormKeeps
    \/ removeCourse /\ FormKeeps
    \/ TimerFires /\ FormKeeps
    \/ calculateCGPA /\ FormKeeps
    \/ resetCalculator /\ FormKeeps

Spec == Init /\ [][Next]_vars

\* The event loop runs a due timer callback; the user owes no event.
FairSpec == Spec /\ WF_vars(TimerFires /\ FormKeeps)

----------------------------------------------------------------------------
(* calculateCGPA on a filled form *)

\* The form holds up to MaxFormRows course rows.
MaxFormRows == 2

FormTitles == { <<"\t">>, <<" ", "J", "a", "v", "a", "\t">> }

FormCredits == { << >>, <<"0">>, <<"3">> }

FormMarks ==
    { << >>, <<"-", "0", ".", "5">>, <<"1", "0", "0", ".", "5">>,
      <<"8", "9", ".", "5">>, <<"1", "0", "0">> }

FormCurrentCGPA == { << >>, <<"3", ".", "5">>, <<"4", ".", "5">>, <<"-", "1">> }

FormCompletedCredits ==
    { << >>, <<"1", "2", ".", "9">>, <<"-", "3">>, <<"0", "x", "1", "A">> }

\* Row i of a form whose rows were added one after the other and filled in;
\* listened says whether the marks field has had an 'input' event, and
\* .grade-result is as the row was built when it has had none.
FilledRow(i, title, credits, marks, listened) ==
    [CourseRow(i, IF i = 1 THEN "" ELSE "slideIn 0.5s ease")
        EXCEPT !.title = title, !.credits = credits, !.marks = marks,
               !.gradeResult = IF listened THEN GradeDisplay(marks) ELSE @]

\* A marks field that holds a value has had an 'input' event; an empty one
\* has had one, the value erased again, or none.
FilledForms ==
    UNION { { [i \in 1..n |-> FilledRow(i, f[i][1], f[i][2], f[i][3], f[i][4])] :
                f \in [1..n -> { g \in FormTitles \X FormCredits \X FormMarks \X BOOLEAN :
                                    g[3] # << >> => g[4] }] } :
            n \in 1..MaxFormRows }

\* A form of rows titled Java, each given by its credits and marks.
JavaForm(cs) ==
    [i \in DOMAIN cs |-> FilledRow(i, <<"J", "a", "v", "a">>, cs[i][1], cs[i][2], TRUE)]

\* Forms whose numbers are rounded, overflow or are written with an
\* exponent or in hexadecimal: the rows, the current CGPA and the completed
\* credits.
RoundedFields ==
    { << << <<<<"6">>, <<"9", "0">>>> >>, <<"2", ".", "3", "0">>, <<"4", "5">> >>,
      << << <<<<"3">>, <<"4", "0">>>> >>, <<"2", ".", "0", "5">>, <<"1", "2", "0">> >>,
      << << <<<<"1">>, <<"4", "0">>>> >>, <<"2", ".", "5", "5">>, <<"5", "0">> >>,
      << << <<<<"1">>, <<"5", "5">>>> >>, <<"3", ".", "0", "1">>, <<"7", "5">> >>,
      << << <<<<"3">>, <<"9", "0">>>> >>, <<"2">>, <<"0", "x", "1", "A">> >>,
      << << <<<<"1", "e", "2">>, <<"9", "0">>>> >>, <<"3", ".", "5">>, <<"1", "2">> >>,
      << << <<<<"1">>, <<"9", "0">>>>, <<<<"4">>, <<"8", "5">>>> >>, <<"3", ".", "8">>, <<"1">> >>,
      << << <<<<"1", "e", "3", "0", "8">>, <<"9", "0">>>> >>, << >>, << >> >>,
      << << <<<<"0", ".", "0", "1", "e", "3", "1", "0">>, <<"9", "0">>>> >>, << >>, <<"1">> >>,
      << << <<<<"3">>, [k \in 1..309 |-> "0"] \o <<"5", "0">>>> >>, << >>, <<"1">> >>,
      << << <<<<"1", "e", "3", "0", "8">>, <<"9", "0">>>>,
            <<<<"1", "e", "3", "0", "8">>, <<"9", "0">>>> >>, << >>, << >> >> }

RoundedForms == { <<JavaForm(f[1]), f[2], f[3]>> : f \in RoundedFields }

FormFields == (FilledForms \X FormCurrentCGPA \X FormCompletedCredits) \cup RoundedForms

FormInit ==
    /\ GRADING_SCALE = GradingScaleLiteral
    /\ GRADE_SCALE = GradeScaleLiteral
    /\ \E f \in FormFields :
          /\ rows = f[1]
          /\ currentCGPA = f[2]
          /\ completedCredits = f[3]
    /\ courseCounter = Len(rows)
    /\ timers = << >>
    /\ totalSemesters = << >>
    /\ cgpaResults = HiddenResults
    /\ alerted = ""
    /\ lastRun = NoRun
    /\ watched = << >>
    /\ call = NoCall

FormNext == calculateCGPA /\ FormKeeps

FormSpec == FormInit /\ [][FormNext]_vars

----------------------------------------------------------------------------
(* calculateCGPA again and again while the student fields are retyped *)

\* The form holds up to MaxPanelRows course rows.
MaxPanelRows == 2

PanelTitles == { <<"J", "a", "v", "a">> }

PanelCredits == { << >>, <<"3">>, <<"1", ".", "5">> }

PanelMarks == { <<"9", "0">>, <<"1", "0", "0", ".", "5">> }

PanelForms ==
    UNION { { [i \in 1..n |-> FilledRow(i, f[i][1], f[i][2], f[i][3], TRUE)] :
                f \in [1..n -> PanelTitles \X PanelCredits \X PanelMarks] } :
            n \in 1..MaxPanelRows }

\* The course rows were added and filled in; the student fields are empty.
PanelInit ==
    /\ GRADING_SCALE = GradingScaleLiteral
    /\ GRADE_SCALE = GradeScaleLiteral
    /\ rows \in PanelForms
    /\ courseCounter = Len(rows)
    /\ timers = << >>
    /\ currentCGPA = << >>
    /\ completedCredits = << >>
    /\ totalSemesters = << >>
    /\ cgpaResults = HiddenResults
    /\ alerted = ""
    /\ lastRun = NoRun
    /\ watched = << >>
    /\ call = NoCall

PanelNext ==
    \/ InputCurrentCGPA(FormCurrentCGPA) /\ FormKeeps
    \/ InputCompletedCredits(FormCompletedCredits) /\ FormKeeps
    \/ calculateCGPA /\ FormKeeps
    \/ resetCalculator /\ FormKeeps

PanelSpec == PanelInit /\ [][PanelNext]_vars

----------------------------------------------------------------------------
(* Properties of the library operations *)

Returned(op) == call.op = op /\ call.done

\* The letter and the point of a returned grade, in either implementation.
LetterOf(c) == IF c.impl = "js" THEN c.result.grade ELSE c.result.letterGrade
PointOf(c)  == IF c.impl = "js" THEN c.result.point ELSE c.result.gradePoint

InRange(x, lo, hi) == Ge(x, Num(lo)) /\ Le(x, Num(hi))

\* The bands of the grading table: lowest and highest mark, letter, and the
\* grade point in hundredths.
Bands ==
    { <<90, 100, "A+", 400>>, <<85, 89, "A", 375>>, <<80, 84, "B+", 350>>,
      <<75, 79, "B", 325>>,   <<70, 74, "C+", 300>>, <<65, 69, "C", 275>>,
      <<60, 64, "D+", 250>>,  <<50, 59, "D", 225>>,  <<0, 49, "F", 0>> }

RealLetters == {b[3] : b \in Bands}

BoundaryMarks ==
    {0, 49, 50, 59, 60, 64, 65, 69, 70, 74, 75, 79, 80, 84, 85, 89, 90, 100}

\* C1: for each of the eighteen boundary marks the grade lookup returns the
\* letter and the point of the band that contains the mark, both ends of a
\* band included.
C1_BoundaryGrades ==
    (Returned("marksToGrade") /\ call.args.marks \in {Num(m) : m \in BoundaryMarks})
        => /\ ~Threw(call.result)
           /\ \E b \in Bands :
                /\ InRange(call.args.marks, b[1], b[2])
                /\ LetterOf(call) = b[3]
                /\ PointOf(call) = Rat(b[4], 100)

C1_Witness ==
    /\ Returned("marksToGrade")
    /\ call.impl = "js"
    /\ call.args.marks = Num(100)
    /\ call.result = [grade |-> "A+", point |-> Num(4)]

\* The band whose minimum is the greatest band minimum <= marks.
FloorBand(marks) ==
    CHOOSE b \in Bands :
        /\ Le(Num(b[1]), marks)
        /\ \A c \in Bands : Le(Num(c[1]), marks) => c[1] <= b[1]

\* The lookup of call c ended in its 'no band matched' fallback.
FallbackReached(c) ==
    IF c.impl = "js"
    THEN \A i \in 1..Len(GRADING_SCALE) :
            ~(Ge(c.args.marks, GRADING_SCALE[i].min)
                /\ Le(c.args.marks, GRADING_SCALE[i].max))
    ELSE floorEntry(GRADE_SCALE, IntCast(c.args.marks)) = << >>

\* C2: for every mark in [0,100], the halves included, the grade lookup
\* returns the band whose minimum is the greatest band minimum <= marks, and
\* its fallback is not reached.
C2_FloorLookup ==
    (Returned("marksToGrade") /\ InRange(call.args.marks, 0, 100))
        => /\ ~Threw(call.result)
           /\ LetterOf(call) = FloorBand(call.args.marks)[3]
           /\ PointOf(call) = Rat(FloorBand(call.args.marks)[4], 100)
           /\ ~FallbackReached(call)

\* C3: for every mark below 0 or above 100 the grade lookup signals
\* OutOfRange: it throws, or returns the letter 'Invalid', and it returns
\* none of the nine letters.
C3_OutOfRange ==
    (Returned("marksToGrade")
        /\ (Lt(call.args.marks, Num(0)) \/ Gt(call.args.marks, Num(100))))
        => \/ Threw(call.result)
           \/ (LetterOf(call) = "Invalid" /\ LetterOf(call) \notin RealLetters)

C3_Witness ==
    /\ Returned("marksToGrade")
    /\ call.impl = "js"
    /\ call.args.marks = Rat(201, 2)
    /\ call.result.grade = "Invalid"

\* The credits of a course as a number, in either implementation.
CreditsOf(impl, course) ==
    IF impl = "js" THEN course.credits ELSE IntToDouble(course.credits)

GradePointOf(impl, marks) ==
    IF impl = "js" THEN marksToGrade(marks).point
    ELSE GradeCalculator_marksToGrade(marks).gradePoint

SemesterGPAOf(impl, courses) ==
    IF impl = "js" THEN calculateSemesterGPA(courses)
    ELSE GradeCalculator_calculateSemesterGPA(courses)

ValidCourse(impl, course) ==
    /\ Gt(CreditsOf(impl, course), Num(0))
    /\ InRange(course.marks, 0, 100)

\* The sum of the numbers of the sequence f from f[i] on, added in their
\* order to acc.
RECURSIVE SumFrom(_, _, _)
SumFrom(f, i, acc) ==
    IF i > Len(f) THEN acc ELSE SumFrom(f, i + 1, Plus(acc, f[i]))

Total(f) == SumFrom(f, 1, Num(0))

Orderings(n) ==
    {p \in [1..n -> 1..n] : \A i, j \in 1..n : p[i] = p[j] => i = j}

\* C4: for a list of valid courses the semester GPA is the sum of grade point
\* times credits over the sum of credits, whatever the order of the courses,
\* and 0 for the empty list.
C4_SemesterGPA ==
    (Returned("calculateSemesterGPA")
        /\ \A i \in DOMAIN call.args.courses :
              ValidCourse(call.impl, call.args.courses[i]))
        => LET cs      == call.args.courses
               idx     == DOMAIN cs
               credits == [i \in idx |-> CreditsOf(call.impl, cs[i])]
               points  == [i \in idx |->
                             Times(GradePointOf(call.impl, cs[i].marks), credits[i])]
           IN  /\ ~Threw(call.result)
               /\ idx = {} => call.result = Num(0)
               /\ idx # {} => call.result = Over(Total(points), Total(credits))
               /\ \A p \in Orderings(Len(cs)) :
                    SemesterGPAOf(call.impl, [i \in idx |-> cs[p[i]]]) = call.result

\* C5: with prevCgpa in [0,4] and no negative argument, the cumulative CGPA
\* is prevCgpa * prevCredits + currentGpa * currentCredits over the credit
\* sum when the credit sum is positive, and 0 when both credit counts are 0;
\* the value is not rounded to decimals.
C5_CumulativeCGPA ==
    (Returned("calculateCumulativeCGPA")
        /\ InRange(call.args.prevCGPA, 0, 4)
        /\ Ge(CreditsOf(call.impl, [credits |-> call.args.prevCredits]), Num(0))
        /\ Ge(call.args.currentGPA, Num(0))
        /\ Ge(CreditsOf(call.impl, [credits |-> call.args.currentCredits]), Num(0)))
        => LET pc  == CreditsOf(call.impl, [credits |-> call.args.prevCredits])
               cc  == CreditsOf(call.impl, [credits |-> call.args.currentCredits])
               sum == Plus(pc, cc)
           IN  /\ ~Threw(call.result)
               /\ Gt(sum, Num(0)) =>
                    call.result =
                        Over(Plus(Times(call.args.prevCGPA, pc),
                                  Times(call.args.currentGPA, cc)), sum)
               /\ sum = Num(0) => call.result = Num(0)

\* C6: the cumulative-CGPA operation signals InvalidArgument, and returns no
\* number, when prevCredits < 0, or currentCredits < 0, or prevCgpa is
\* outside [0,4].
C6_InvalidArgument ==
    (Returned("calculateCumulativeCGPA")
        /\ \/ Lt(CreditsOf(call.impl, [credits |-> call.args.prevCredits]), Num(0))
           \/ Lt(CreditsOf(call.impl, [credits |-> call.args.currentCredits]), Num(0))
           \/ ~InRange(call.args.prevCGPA, 0, 4))
        => Threw(call.result)

\* The label of a returned status, in either implementation.
LabelOf(c) == IF c.impl = "js" THEN c.result.text ELSE c.result

\* The standing bands: label, lowest CGPA (included) and upper limit
\* (excluded), in hundredths.  No CGPA in [0,4] reaches 401.
Standings ==
    { <<"Dean's List", 375, 401>>,   <<"Excellent Standing", 350, 375>>,
      <<"Good Standing", 300, 350>>, <<"Satisfactory", 250, 300>>,
      <<"Warning", 200, 250>>,       <<"Academic Probation", 0, 200>> }

\* C7: for every cgpa in [0,4] the status label is the label of the band
\* that holds it, a threshold belonging to the higher band, and no other.
C7_StatusBands ==
    (Returned("getAcademicStatus") /\ InRange(call.args.cgpa, 0, 4))
        => \A b \in Standings :
              (LabelOf(call) = b[1])
                <=> (Ge(call.args.cgpa, Rat(b[2], 100))
                        /\ Lt(call.args.cgpa, Rat(b[3], 100)))

C7_Witness ==
    /\ Returned("getAcademicStatus")
    /\ call.impl = "js"
    /\ call.args.cgpa = Num(2)
    /\ call.result.text = "Warning"

\* C8: for every cgpa below 0 or above 4 the status classifier returns an
\* 'Invalid' label and none of the six standing labels.
C8_InvalidStatus ==
    (Returned("getAcademicStatus")
        /\ (Lt(call.args.cgpa, Num(0)) \/ Gt(call.args.cgpa, Num(4))))
        => /\ LabelOf(call) \in {"Invalid", "Invalid CGPA"}
           /\ LabelOf(call) \notin {b[1] : b \in Standings}

----------------------------------------------------------------------------
(* Properties of the calculate flow *)

\* Row r holds a course: a title that is not blank, credits above 0 and
\* marks from 0 to 100.
HoldsCourse(r) ==
    /\ \E k \in DOMAIN r.title : r.title[k] \notin WhiteSpaceChars
    /\ Gt(parseFloat(r.credits), Num(0))
    /\ InRange(parseFloat(r.marks), 0, 100)

\* C9: every course that reaches the semester-GPA computation of
\* calculateCGPA has a title, credits > 0 and marks in [0,100]; the rows
\* that lack one of these are dropped, so the lookup never answers
\* 'Invalid' and the credit total is positive when the computation runs.
C9_ValidCoursesOnly ==
    lastRun.ran =>
        /\ \A i \in DOMAIN lastRun.courses :
              LET c == lastRun.courses[i]
              IN  /\ c.title # << >>
                  /\ Gt(c.credits, Num(0))
                  /\ InRange(c.marks, 0, 100)
                  /\ marksToGrade(c.marks).grade # "Invalid"
        /\ Len(lastRun.courses) = Cardinality({i \in DOMAIN rows : HoldsCourse(rows[i])})
        /\ Gt(lastRun.currentCredits, Num(0))

C9_Witness ==
    /\ lastRun.ran
    /\ Len(rows) = 2
    /\ parseFloat(rows[1].credits) = Num(0)
    /\ Len(lastRun.courses) = 1
    /\ lastRun.courses[1].marks = Rat(179, 2)

----------------------------------------------------------------------------
(* Properties of the results panel *)

\* The student fields as calculateCGPA reads them.
EnteredCGPA == OrZero(parseFloat(currentCGPA))

EnteredCredits == OrZero(parseInt(completedCredits))

\* The rows at the places of S, in their order.
RECURSIVE RowsAt(_, _)
RowsAt(S, i) ==
    IF i > Len(rows) THEN << >>
    ELSE (IF i \in S THEN <<rows[i]>> ELSE << >>) \o RowsAt(S, i + 1)

\* The sum of the credits of the rows at the places of S, and of their grade
\* points times credits.
CreditsAt(S) ==
    LET rs == RowsAt(S, 1) IN Total([k \in DOMAIN rs |-> parseFloat(rs[k].credits)])

PointsAt(S) ==
    LET rs == RowsAt(S, 1)
    IN  Total([k \in DOMAIN rs |->
                  Times(marksToGrade(parseFloat(rs[k].marks)).point,
                        parseFloat(rs[k].credits))])

\* The rows that hold a course, and the sum of their credits.
CourseRows == {i \in DOMAIN rows : HoldsCourse(rows[i])}

RowCredits == CreditsAt(CourseRows)

BadCGPA == Lt(EnteredCGPA, Num(0)) \/ Gt(EnteredCGPA, Num(4))

BadCredits == Lt(EnteredCredits, Num(0))

NoCourse == CourseRows = {}

ValidationMessages ==
    { "Current CGPA must be between 0.0 and 4.0",
      "Completed credits cannot be negative",
      "Please add at least one course with valid information" }

\* What the four result elements show.
PanelValues(panel) ==
    <<panel.semesterGPA, panel.newCGPA, panel.totalCredits, panel.academicStatus,
      panel.statusClass>>

\* C11: calculateCGPA on a current CGPA outside [0,4], on negative completed
\* credits or on a form without a valid course row shows a validation message
\* that names a failed check and leaves the results panel as it was, its
\* visibility and its four values; the values of the panel are written, and
\* the panel is shown, only by a step that starts with all three checks
\* passing, and the total credits it then shows are the completed credits
\* plus the credits of the valid course rows.
C11_Validation ==
    [][ /\ (calculateCGPA /\ (BadCGPA \/ BadCredits \/ NoCourse))
            => /\ alerted' \in ValidationMessages
               /\ alerted' = "Current CGPA must be between 0.0 and 4.0" => BadCGPA
               /\ alerted' = "Completed credits cannot be negative" => BadCredits
               /\ alerted' = "Please add at least one course with valid information"
                      => NoCourse
               /\ cgpaResults' = cgpaResults
        /\ (calculateCGPA /\ ~(BadCGPA \/ BadCredits \/ NoCourse))
            => /\ alerted' = ""
               /\ cgpaResults'.display = "block"
               /\ cgpaResults'.totalCredits = <<Plus(EnteredCredits, RowCredits)>>
        /\ (PanelValues(cgpaResults') # PanelValues(cgpaResults)
                \/ (cgpaResults'.display = "block" /\ cgpaResults.display # "block"))
            => /\ ~(BadCGPA \/ BadCredits \/ NoCourse)
               /\ cgpaResults'.totalCredits = <<Plus(EnteredCredits, RowCredits)>>
      ]_vars

\* The panel shows the total of an earlier run, 12 + 3 credits, and the run
\* just made on -3 completed credits was turned down.
C11_Witness ==
    /\ alerted = "Completed credits cannot be negative"
    /\ cgpaResults.display = "block"
    /\ cgpaResults.totalCredits = <<Num(15)>>
    /\ EnteredCredits = Num(-3)
    /\ ~NoCourse

\* The smaller and the larger of two numbers.
Smaller(a, b) == IF Le(a, b) THEN a ELSE b

Larger(a, b) == IF Le(a, b) THEN b ELSE a

\* C12: when calculateCGPA has displayed a result, the semester GPA it
\* computed lies in [0,4], the new CGPA it computed lies between the smaller
\* and the larger of the entered current CGPA and that semester GPA, and so
\* in [0,4]; the new CGPA is what the status classifier was given, and the
\* label shown is the label of the band of [0,4] that holds it.
C12_ResultRange ==
    lastRun.ran =>
        /\ cgpaResults.display = "block"
        /\ InRange(EnteredCGPA, 0, 4)
        /\ InRange(lastRun.semesterGPA, 0, 4)
        /\ Le(Smaller(EnteredCGPA, lastRun.semesterGPA), lastRun.newCGPA)
        /\ Le(lastRun.newCGPA, Larger(EnteredCGPA, lastRun.semesterGPA))
        /\ InRange(lastRun.newCGPA, 0, 4)
        /\ \E b \in Standings :
              /\ cgpaResults.academicStatus.text = b[1]
              /\ Ge(lastRun.newCGPA, Rat(b[2], 100))
              /\ Lt(lastRun.newCGPA, Rat(b[3], 100))

----------------------------------------------------------------------------
(* Properties of the course rows *)

\* C13: the data-course-id values of the course rows in the container are
\* pairwise distinct, so the row removeCourse finds for the id of a row is
\* that row: the remove button of a row removes its own row and no other.
C13_DistinctIds ==
    /\ \A i, j \in DOMAIN rows : rows[i].id = rows[j].id => i = j
    /\ \A b \in DOMAIN rows : QueryCourseRow(rows[b].id) = b

\* The places of the rows removeCourse has been called for and that are
\* still in the container, their timers pending.
Removing == {timers[k] : k \in DOMAIN timers} \ {Detached}

\* The rows that hold a course and that no removeCourse was called for, the
\* sum of their credits and of their grade points times credits.
LiveCourseRows == CourseRows \ Removing

LiveCredits == CreditsAt(LiveCourseRows)

LivePoints == PointsAt(LiveCourseRows)

\* A calculateCGPA that gets through counts the courses of the rows no
\* removeCourse was called for, and no other.
RemovedRowNotCounted ==
    [][ (calculateCGPA /\ ~(BadCGPA \/ BadCredits \/ NoCourse))
            => /\ LiveCourseRows # {}
               /\ Len(lastRun'.courses) = Cardinality(LiveCourseRows)
               /\ lastRun'.currentCredits = LiveCredits
               /\ lastRun'.semesterGPA = Over(LivePoints, LiveCredits)
               /\ cgpaResults'.totalCredits = <<Plus(EnteredCredits, LiveCredits)>>
      ]_vars

\* The row a removeCourse call found leaves the container.
RemovedRowLeaves ==
    (watched # << >> /\ watched # <<Detached>>) ~> (watched = <<Detached>>)

\* C14: once removeCourse has been called for a course row, no later
\* calculateCGPA counts the course of that row in the semester GPA, in the
\* current credits or in the total credits, whatever the user does while
\* the 300 ms timer of the removal is pending; and the row leaves the
\* container in the end.
C14_RemovedRow == RemovedRowNotCounted /\ RemovedRowLeaves

====
